---- MODULE Spec2Model ----
(***************************************************************************)
(* Model of the AquaSync single-page view (src/src/App.tsx) and of its     *)
(* entry point (src/unnamed/part_000).                                     *)
(*                                                                         *)
(* The view is a React function component.  Its state is the four fetched  *)
(* entities (info, energy, quality, status), the theme, three chart        *)
(* instance refs, and whatever the closures of the last run of the "lazy   *)
(* chart" effect hold: the entities of the render the effect ran in and    *)
(* the IntersectionObservers it registered.  The environment is the        *)
(* network (four GET requests), the viewport (which canvases intersect     *)
(* it), the dynamic import of the chart library, and client-local storage. *)
(*                                                                         *)
(* Granularity: one action per callback or task of the single event loop.  *)
(* A state update made from a promise callback commits a render in one     *)
(* task and runs the passive effects in a later one, so SetState and       *)
(* FlushEffects are two actions; React runs pending passive effects before *)
(* the next render or unmount, which the guards ~dirty express.  An update *)
(* made from a click handler is committed with its effects in the same     *)
(* task, so ToggleTheme is one action.  Every "await import(...)" suspends *)
(* the create function; the continuations run later, in the order in which *)
(* they were suspended.  The viewport is not a variable: what an observer  *)
(* entry reports is an input of Notify.                                    *)
(*                                                                         *)
(* awaiting is a history variable: it records, per slot, that the create   *)
(* function was called from the observer callback and returned at its null *)
(* check, which the code does not store anywhere.                          *)
(***************************************************************************)
EXTENDS Integers, Sequences, FiniteSets, TLC

VARIABLES phase, strictMode, storage, theme, req, logged, data, dirty,
          closure, observers, awaiting, pending, charts, chartRef

vars == <<phase, strictMode, storage, theme, req, logged, data, dirty,
          closure, observers, awaiting, pending, charts, chartRef>>

(***************************************************************************)
(* Bounds of the exploration.                                              *)
(***************************************************************************)
\* charts constructed or being constructed in one view lifetime
MaxCharts == 2
\* runs of the lazy chart effect in one view lifetime
MaxRuns == 4
\* requests that fail in one view lifetime
MaxFailures == 1

(***************************************************************************)
(* Values.                                                                 *)
(***************************************************************************)
Slots == {"energy", "quality", "status"}
Cats == {"info"} \cup Slots

\* localStorage.getItem returns null for a key that was never written
NoValue == "<absent>"
\* what localStorage can hold under the key 'theme' before startup: nothing,
\* the empty string, the two values the view writes, and a foreign string
StoredValues == {NoValue, "", "light", "dark", "blue"}

\* JSON bodies: the well-formed body of each endpoint and the JSON error body
\* a server sends with a 4xx/5xx status
ErrBody == [detail |-> "Not Found"]
GoodBody(c) ==
    CASE c = "info"    -> [context |-> "ctx", problem |-> "p", solution |-> "s", business_model |-> "b"]
      [] c = "energy"  -> [labels |-> <<"Jan", "Feb">>, data |-> <<10, 20>>, unit |-> "kWh"]
      [] c = "quality" -> [labels |-> <<"pH", "TDS">>, data |-> <<7, 300>>, unit |-> "ppm"]
      [] c = "status"  -> [labels |-> <<"ok", "warn", "bad">>, data |-> <<5, 2, 1>>]

\* a piece of state is null or an object instance: id 0 is null, and every
\* decoded response is a new instance
NoEntity == [id |-> 0, body |-> [null |-> TRUE]]
HasData(e) == e.id > 0

(***************************************************************************)
(* Theme (App.tsx 31, 38-41, 169).                                         *)
(***************************************************************************)
\* useState initialiser: localStorage.getItem('theme') || 'light'
InitialTheme(stored) == IF stored = NoValue \/ stored = "" THEN "light" ELSE stored

\* the updater of toggleTheme
ToggledTheme(t) == IF t = "light" THEN "dark" ELSE "light"

\* a theme effect that writes the default instead of the theme
PersistDefault(t) == "light"

\* the theme effect: localStorage.setItem('theme', theme)
PersistTheme(t) == t

(***************************************************************************)
(* Chart configuration (App.tsx 75-95, 104-121, 130-139).                  *)
(***************************************************************************)
ChartKind(s) ==
    CASE s = "energy" -> "line" [] s = "quality" -> "bar" [] s = "status" -> "doughnut"

\* `${x}` of a template literal: an absent property prints as "undefined"
Interpolate(obj, f) == IF f \in DOMAIN obj THEN obj[f] ELSE "undefined"

\* a dataset label without the unit
DatasetLabelPlain(s, body) ==
    CASE s = "energy"  -> <<"Energy Consumption">>
      [] s = "quality" -> <<"Water Quality">>
      [] s = "status"  -> <<>>

\* the dataset label, as the pieces the template literal joins
DatasetLabel(s, body) ==
    CASE s = "energy"  -> <<"Energy Consumption (", Interpolate(body, "unit"), ")">>
      [] s = "quality" -> <<"Water Quality (", Interpolate(body, "unit"), ")">>
      [] s = "status"  -> <<>>

\* a property copied from the entity: absent in the configuration when the
\* entity does not have it
Copy(obj, f, as) == IF f \in DOMAIN obj THEN as :> obj[f] ELSE <<>>

ChartConfig(s, body) ==
    ("type" :> ChartKind(s)) @@ ("label" :> DatasetLabel(s, body))
      @@ Copy(body, "labels", "labels") @@ Copy(body, "data", "data")

(***************************************************************************)
(* Rendering (App.tsx 267-283, 291-317, 364-368).                          *)
(***************************************************************************)
\* the sections that show info read info.problem.owners and
\* info.solution.modules: a non-null info without these objects makes the
\* render throw, and React unmounts a tree whose render throws
RenderThrows(e) ==
    HasData(e) /\ ("problem" \notin DOMAIN e.body \/ "solution" \notin DOMAIN e.body)

\* what an info section shows: {info ? content : <p>Loading...</p>}
Section(e) == IF HasData(e) THEN "content" ELSE "Loading..."

(***************************************************************************)
(* Chart instances.  charts[s] is every instance constructed on the canvas *)
(* of slot s in this view lifetime, in the order of construction;          *)
(* chartRef[s] is the ref of the slot: an index into charts[s], or 0 for   *)
(* null.                                                                   *)
(***************************************************************************)
\* chart.destroy()
Destroy(cs, i) ==
    IF i = 0 THEN cs ELSE [cs EXCEPT ![i].live = FALSE, ![i].destroys = @ + 1]

\* a create function that constructs without destroying the prior instance
DestroyPriorSkipped(cs, i) == cs

\* App.tsx 74: if (energyChartRef.current) energyChartRef.current.destroy()
DestroyPrior(cs, i) == Destroy(cs, i)

\* App.tsx 75: new Chart(ctx, {...})
NewChart(s, src) ==
    [src |-> src, cfg |-> ChartConfig(s, src.body), live |-> TRUE, destroys |-> 0]

\* App.tsx 163-165: the three destroy calls of the cleanup; the refs keep
\* pointing at the destroyed instances
DestroyAll(all, ref) == [s \in Slots |-> Destroy(all[s], ref[s])]

(***************************************************************************)
(* Visibility observers.  observers[r][s] is the observer that run r of    *)
(* the lazy chart effect registered for slot s:                            *)
(*   "fresh"        observing, no entry delivered yet                      *)
(*   "hidden"       observing, the last entry was not intersecting         *)
(*   "unobserved"   reported intersecting and unobserved its target        *)
(*   "disconnected" disconnected by the cleanup                            *)
(***************************************************************************)
\* App.tsx 157-159: makeObserver for the three canvases (the canvases are
\* rendered unconditionally, so el is never null while the view is mounted)
MakeObservers == [s \in Slots |-> "fresh"]

\* a cleanup that disconnects only the observers that reported nothing yet
DisconnectFresh(run) == [s \in Slots |-> IF run[s] = "fresh" THEN "disconnected" ELSE run[s]]

\* App.tsx 162: observers.forEach((o) => o.disconnect())
DisconnectAll(run) == [s \in Slots |-> "disconnected"]

Active(o) == o \in {"fresh", "hidden"}

\* the observers of the last run of the effect
Current == observers[Len(observers)]

\* an observer delivers an entry when the intersection state differs from
\* the one it last delivered; the first entry is delivered in any case
HasEntry(o, isIntersecting) == o = "fresh" \/ (o = "hidden" /\ isIntersecting)

(***************************************************************************)
(* The create functions up to their await (App.tsx 69-73, 98-102, 124-128):*)
(* return when the entity of the closure is null, else suspend at the      *)
(* import of the chart library.                                            *)
(***************************************************************************)
\* a create function without its null check
CreateStartUnguarded(q, e) == Append(q, e)

CreateStart(q, e) == IF HasData(e) THEN Append(q, e) ELSE q

\* constructions started in this view lifetime
Constructions ==
    Len(charts["energy"]) + Len(charts["quality"]) + Len(charts["status"])
      + Len(pending["energy"]) + Len(pending["quality"]) + Len(pending["status"])

(***************************************************************************)
(* Initial state: the page is loaded and nothing has run.                  *)
(***************************************************************************)
NoRequests == [c \in Cats |-> [pending |-> 0, failed |-> 0, done |-> 0]]

Blank ==
    /\ phase = "init"
    /\ strictMode = FALSE
    /\ theme = "light"
    /\ req = NoRequests
    /\ logged = [c \in Cats |-> 0]
    /\ data = [c \in Cats |-> NoEntity]
    /\ dirty = FALSE
    /\ closure = [s \in Slots |-> NoEntity]
    /\ observers = <<>>
    /\ awaiting = [s \in Slots |-> FALSE]
    /\ pending = [s \in Slots |-> <<>>]
    /\ charts = [s \in Slots |-> <<>>]
    /\ chartRef = [s \in Slots |-> 0]

Init == Blank /\ storage \in StoredValues

(***************************************************************************)
(* Mount (part_000 9-13; App.tsx 31, 38-41, 44-65, 68-167).                *)
(* The entry point renders App inside React.StrictMode: a development      *)
(* build runs every effect, its cleanup, and the effect again; a           *)
(* production build runs it once.  strict is the build.                    *)
(***************************************************************************)
\* the fetch effect issues one GET per category each time it runs
IssueRequests(strict) ==
    [c \in Cats |-> [pending |-> IF strict THEN 2 ELSE 1, failed |-> 0, done |-> 0]]

\* the lazy chart effect at mount: all three entities are null
MountObservers(strict) ==
    IF strict THEN <<DisconnectAll(MakeObservers), MakeObservers>> ELSE <<MakeObservers>>

Mount(strict) ==
    /\ phase = "init"
    /\ phase' = "mounted"
    /\ strictMode' = strict
    /\ theme' = InitialTheme(storage)
    /\ storage' = PersistTheme(theme')
    /\ req' = IssueRequests(strict)
    /\ observers' = MountObservers(strict)
    /\ UNCHANGED <<logged, data, dirty, closure, pending, charts, chartRef, awaiting>>

(***************************************************************************)
(* Theme toggle (App.tsx 169, 38-41): the click handler's update and the   *)
(* theme effect it triggers.                                               *)
(***************************************************************************)
ToggleTheme ==
    /\ phase = "mounted" /\ ~dirty
    /\ theme' = ToggledTheme(theme)
    /\ storage' = PersistTheme(theme')
    /\ UNCHANGED <<phase, strictMode, req, logged, data, dirty, closure, observers,
                   pending, charts, chartRef, awaiting>>

(***************************************************************************)
(* Reload of the page: only client-local storage survives.                 *)
(***************************************************************************)
Reload ==
    /\ phase # "init"
    /\ phase' = "init"
    /\ strictMode' = FALSE
    /\ theme' = "light"
    /\ req' = NoRequests
    /\ logged' = [c \in Cats |-> 0]
    /\ data' = [c \in Cats |-> NoEntity]
    /\ dirty' = FALSE
    /\ closure' = [s \in Slots |-> NoEntity]
    /\ observers' = <<>>
    /\ awaiting' = [s \in Slots |-> FALSE]
    /\ pending' = [s \in Slots |-> <<>>]
    /\ charts' = [s \in Slots |-> <<>>]
    /\ chartRef' = [s \in Slots |-> 0]
    /\ UNCHANGED storage

(***************************************************************************)
(* The fetches (App.tsx 44-65).                                            *)
(***************************************************************************)
Failures == req["info"].failed + req["energy"].failed + req["quality"].failed + req["status"].failed

Settled(r, how) == [r EXCEPT !.pending = @ - 1, ![how] = @ + 1]

\* fetch rejects (network error) or res.json() rejects (non-JSON body):
\* the catch handler logs
FetchFail(c, kind) ==
    /\ phase # "init" /\ req[c].pending > 0
    /\ Failures < MaxFailures
    /\ kind \in {"network error", "non-JSON body"}
    /\ req' = [req EXCEPT ![c] = Settled(@, "failed")]
    /\ logged' = [logged EXCEPT ![c] = @ + 1]
    /\ UNCHANGED <<phase, strictMode, storage, theme, data, dirty, closure, observers,
                   pending, charts, chartRef, awaiting>>

\* what the setter receives: res.json() of a response is its decoded body,
\* whatever the HTTP status of the response
Decoded(c, response) == [id |-> req[c].done + 1, body |-> response.body]

\* the responses explored: every endpoint answers 200 with its well-formed
\* body; /info and /energy also answer 404 with a JSON error body
ErrorProne == {"info", "energy"}
Responses(c) ==
    {[status |-> 200, body |-> GoodBody(c)]}
      \cup (IF c \in ErrorProne THEN {[status |-> 404, body |-> ErrBody]} ELSE {})

\* .then((data) => setX(data)) on the mounted view, the render succeeding
SetState(c, response) ==
    /\ phase = "mounted" /\ ~dirty /\ req[c].pending > 0
    /\ ~(c = "info" /\ RenderThrows(Decoded(c, response)))
    /\ c \in Slots => Len(observers) < MaxRuns
    /\ req' = [req EXCEPT ![c] = Settled(@, "done")]
    /\ data' = [data EXCEPT ![c] = Decoded(c, response)]
    /\ dirty' = (c \in Slots)
    /\ UNCHANGED <<phase, strictMode, storage, theme, logged, closure, observers,
                   pending, charts, chartRef, awaiting>>

\* setInfo with an object the sections cannot render: the render throws and
\* React unmounts the view, running the cleanup of the lazy chart effect
RenderCrash(response) ==
    /\ phase = "mounted" /\ ~dirty /\ req["info"].pending > 0
    /\ RenderThrows(Decoded("info", response))
    /\ req' = [req EXCEPT !["info"] = Settled(@, "done")]
    /\ phase' = "crashed"
    /\ observers' = [observers EXCEPT ![Len(observers)] = DisconnectAll(@)]
    /\ charts' = DestroyAll(charts, chartRef)
    /\ UNCHANGED <<strictMode, storage, theme, logged, data, dirty, closure,
                   pending, chartRef, awaiting>>

\* a response that arrives after the view is gone: the setter does nothing
LateResponse(c) ==
    /\ phase \in {"torn", "crashed"} /\ req[c].pending > 0
    /\ req' = [req EXCEPT ![c] = Settled(@, "done")]
    /\ UNCHANGED <<phase, strictMode, storage, theme, logged, data, dirty, closure,
                   observers, pending, charts, chartRef, awaiting>>

(***************************************************************************)
(* The lazy chart effect (App.tsx 68-167), deps [energy, quality, status]: *)
(* after a render in which one of the three changed, the cleanup of the    *)
(* previous run, then the effect with the entities of the new render.      *)
(***************************************************************************)
FlushEffects ==
    /\ phase = "mounted" /\ dirty
    /\ dirty' = FALSE
    /\ charts' = DestroyAll(charts, chartRef)
    /\ observers' = Append([observers EXCEPT ![Len(observers)] = DisconnectAll(@)], MakeObservers)
    /\ closure' = [s \in Slots |-> data[s]]
    /\ UNCHANGED <<phase, strictMode, storage, theme, req, logged, data,
                   pending, chartRef, awaiting>>

\* a callback that unobserves its target at whatever entry it is handed
AfterEntryRetiring(isIntersecting) == "unobserved"

\* App.tsx 146-151: the target is unobserved inside if (entry.isIntersecting)
\* only; an observer that reported the surface hidden stays registered
AfterEntry(isIntersecting) == IF isIntersecting THEN "unobserved" ELSE "hidden"

\* the state of a slot in the state machine of the lazy renderer: awaiting[s]
\* holds from the moment the surface of s is reported visible with the data
\* of s absent (the create function returned at its null check) until a
\* chart is constructed on s
AwaitsData(was, s, e) == was \/ (charts[s] = <<>> /\ ~HasData(e))

\* the observer callback (App.tsx 145-151) for an entry of the canvas of
\* slot s; isIntersecting is what the viewport makes it
Notify(s, isIntersecting) ==
    /\ phase = "mounted"
    /\ HasEntry(Current[s], isIntersecting)
    /\ IF isIntersecting
       THEN /\ HasData(closure[s]) => Constructions < MaxCharts
            /\ pending' = [pending EXCEPT ![s] = CreateStart(@, closure[s])]
            /\ observers' = [observers EXCEPT ![Len(observers)][s] = AfterEntry(isIntersecting)]
            /\ awaiting' = [awaiting EXCEPT ![s] = AwaitsData(@, s, closure[s])]
       ELSE /\ observers' = [observers EXCEPT ![Len(observers)][s] = AfterEntry(isIntersecting)]
            /\ UNCHANGED <<pending, awaiting>>
    /\ UNCHANGED <<phase, strictMode, storage, theme, req, logged, data, dirty, closure,
                   charts, chartRef>>

\* the continuation of a create function after its await (App.tsx 74-95):
\* it runs whatever has happened to the view in the meantime
CreateFinish(s) ==
    /\ pending[s] # <<>>
    /\ LET cs == Append(DestroyPrior(charts[s], chartRef[s]), NewChart(s, Head(pending[s])))
       IN /\ charts' = [charts EXCEPT ![s] = cs]
          /\ chartRef' = [chartRef EXCEPT ![s] = Len(cs)]
    /\ pending' = [pending EXCEPT ![s] = Tail(@)]
    /\ awaiting' = [awaiting EXCEPT ![s] = FALSE]
    /\ UNCHANGED <<phase, strictMode, storage, theme, req, logged, data, dirty, closure,
                   observers>>

\* the view is unmounted: the cleanup of the lazy chart effect (App.tsx 161-166)
Teardown ==
    /\ phase = "mounted" /\ ~dirty
    /\ phase' = "torn"
    /\ observers' = [observers EXCEPT ![Len(observers)] = DisconnectAll(@)]
    /\ charts' = DestroyAll(charts, chartRef)
    /\ UNCHANGED <<strictMode, storage, theme, req, logged, data, dirty, closure,
                   pending, chartRef, awaiting>>

\* what happens once the view is mounted, the theme toggle apart
Run ==
    \/ Reload
    \/ \E c \in Cats, kind \in {"network error", "non-JSON body"} : FetchFail(c, kind)
    \/ \E c \in Cats : \E r \in Responses(c) : SetState(c, r)
    \/ \E r \in Responses("info") : RenderCrash(r)
    \/ \E c \in Cats : LateResponse(c)
    \/ FlushEffects
    \/ \E s \in Slots, isIntersecting \in BOOLEAN : Notify(s, isIntersecting)
    \/ \E s \in Slots : CreateFinish(s)
    \/ Teardown

(***************************************************************************)
(* Spec: the production build, started with anything in client-local       *)
(* storage.                                                                *)
(***************************************************************************)
Next ==
    \/ Mount(FALSE)
    \/ ToggleTheme
    \/ Run

Spec == Init /\ [][Next]_vars

(***************************************************************************)
(* SpecDev: the development build, in which React.StrictMode runs every    *)
(* effect twice at mount.  The theme does not interact with the fetches    *)
(* and the charts, and is left at its default here.                        *)
(***************************************************************************)
InitDev == Blank /\ storage = NoValue

NextDev ==
    \/ Mount(TRUE)
    \/ Run

SpecDev == InitDev /\ [][NextDev]_vars

TypeOK ==
    /\ phase \in {"init", "mounted", "torn", "crashed"}
    /\ storage \in StoredValues
    /\ Constructions <= MaxCharts

(***************************************************************************)
(* Properties.                                                             *)
(***************************************************************************)
Live(s) == {i \in 1..Len(charts[s]) : charts[s][i].live}
Gone == phase \in {"torn", "crashed"}

\* C1: in every reachable state each chart slot has at most one live chart
\* instance: whenever a new instance is constructed on a slot, the prior
\* instances of the slot have been destroyed.
C1_AtMostOneLive == \A s \in Slots : Cardinality(Live(s)) <= 1

\* a slot on which a second instance was constructed and is live
C1_Witness ==
    \E s \in Slots : Len(charts[s]) >= 2 /\ Live(s) = {Len(charts[s])}

\* C2: a construction is started only by the slot's observer reporting its
\* surface visible, and only with the slot's data present; and a chart is
\* constructed only by a construction that was started so, with the slot's
\* data present.
C2_NeverBeforeDataAndVisible ==
    [][\A s \in Slots :
         /\ Len(pending'[s]) > Len(pending[s]) =>
              /\ HasData(data[s])
              /\ Active(Current[s])
              /\ observers'[Len(observers)][s] = "unobserved"
         /\ Len(charts'[s]) > Len(charts[s]) =>
              /\ HasData(data[s])
              /\ pending[s] # <<>>
              /\ pending'[s] = Tail(pending[s])]_vars

\* a chart constructed on a slot by a run of the effect that a data arrival
\* triggered, the slot's observer having reported its surface visible
C2_Witness ==
    \E s \in Slots :
        /\ Len(charts[s]) = 1 /\ Live(s) = {1}
        /\ Current[s] = "unobserved"

\* C5: after the view is torn down no visibility observer is active: every
\* observer registered by any run of the lazy chart effect is disconnected.
C5_NoActiveObserverAfterTeardown ==
    Gone => \A r \in 1..Len(observers) : \A s \in Slots : observers[r][s] = "disconnected"

\* torn down after data arrivals re-ran the effect
C5_Witness == phase = "torn" /\ Len(observers) >= 2

\* C3: the chart of a slot is constructed exactly once in a view lifetime,
\* however its data arrival and its visibility report are ordered and
\* whatever data arrives for the other slots: no slot ever has a second
\* construction.
C3_ConstructedOnce == \A s \in Slots : Len(charts[s]) <= 1

\* C4: after the view is torn down every chart instance that was constructed
\* is destroyed: no slot has a live instance, also when a construction was
\* suspended at the import when the teardown ran.
C4_NoLiveChartAfterTeardown == phase = "torn" => \A s \in Slots : Live(s) = {}

\* a step in which a request of category c fails: it is rejected (network
\* error, non-JSON body) or it is answered with an error status
Rejected(c) == req'[c].failed = req[c].failed + 1
ErrorAnswered(c) ==
    /\ phase = "mounted" /\ req'[c].done = req[c].done + 1
    /\ \/ HasData(data'[c]) /\ data'[c] # data[c] /\ "detail" \in DOMAIN data'[c].body
       \/ c = "info" /\ phase' = "crashed"

\* what the view shows of category d and holds for it is unchanged
Untouched(d) ==
    /\ phase' = phase
    /\ data'[d] = data[d]
    /\ d \in Slots => /\ charts'[d] = charts[d]
                      /\ chartRef'[d] = chartRef[d]
                      /\ pending'[d] = pending[d]

\* C6: a failing request of one category changes nothing about the other
\* three: the view stays up, and their state, their charts and their
\* constructions under way are what they were.
C6_FailureLeavesOthers ==
    [][\A c \in Cats : (Rejected(c) \/ ErrorAnswered(c)) =>
          \A d \in Cats \ {c} : Untouched(d)]_vars

\* C7: once a request of a category has failed with a network error or a
\* non-JSON body, the state of the category having been unset, the state
\* stays unset.
C7_FailedStaysUnset ==
    [][\A c \in Cats : (req[c].failed > 0 /\ ~HasData(data[c])) => ~HasData(data'[c])]_vars

\* C8: a response with an HTTP error status leaves the state of its category
\* unset: no category ever holds the body of an error response.
C8_HttpErrorLeavesUnset ==
    \A c \in Cats : HasData(data[c]) => "detail" \notin DOMAIN data[c].body

\* C9: whenever the view has started, re-reading the persisted value yields
\* the current theme, so a reload starts with the theme that was current
\* before it; in particular a theme toggled to dark is persisted as "dark".
C9_ThemeSurvivesReload ==
    phase # "init" =>
        /\ InitialTheme(storage) = theme
        /\ theme = "dark" => storage = "dark"

\* the theme is dark, and persisted
C9_Witness == phase = "mounted" /\ theme = "dark" /\ storage = "dark"

Includes(label, piece) == \E k \in 1..Len(label) : label[k] = piece

\* C10: every chart constructed on a slot was configured from an entity the
\* slot's state held (the one it holds, if it is that instance), with the
\* chart kind of the slot, the labels and the values of the entity and, for
\* energy and quality, a dataset label that includes the unit of the entity;
\* energy data {labels: [Jan, Feb], data: [10, 20], unit: kWh} yields the
\* values [10, 20] and a label that includes kWh.
C10_ConfigFromEntity ==
    \A s \in Slots : \A i \in 1..Len(charts[s]) :
        LET c == charts[s][i]
            e == c.src.body
        IN /\ c.src.id >= 1 /\ c.src.id <= data[s].id
           /\ c.src.id = data[s].id => c.src = data[s]
           /\ c.cfg["type"] = ChartKind(s)
           /\ "labels" \in DOMAIN e => "labels" \in DOMAIN c.cfg /\ c.cfg["labels"] = e.labels
           /\ "data" \in DOMAIN e => "data" \in DOMAIN c.cfg /\ c.cfg["data"] = e.data
           /\ (s # "status" /\ "unit" \in DOMAIN e) => Includes(c.cfg["label"], e.unit)
           /\ (s = "energy" /\ e = GoodBody("energy")) =>
                 /\ c.cfg["data"] = <<10, 20>>
                 /\ Includes(c.cfg["label"], "kWh")

\* a chart constructed from well-formed energy data
C10_Witness ==
    \E i \in 1..Len(charts["energy"]) : charts["energy"][i].src.body = GoodBody("energy")

LastChart(s) == charts[s][Len(charts[s])]

\* C11: once a chart has been constructed on a slot, the surface of the slot
\* leaving the viewport and entering it again (an intersecting entry for an
\* observer that had reported the surface hidden) starts no construction for
\* the slot unless the data entity of the slot has changed since that
\* construction; the arrival of data for another slot does not make it do so.
C11_ReentryConstructsOnlyNewData ==
    [][\A s \in Slots :
          (/\ charts[s] # <<>>
           /\ Current[s] = "hidden"
           /\ Len(pending'[s]) > Len(pending[s]))
             => LastChart(s).src # closure[s]]_vars

\* a slot whose surface was reported visible while its data was absent and
\* whose data the last run of the effect has seen
ArrivedWhileAwaiting(s) == phase = "mounted" /\ awaiting[s] /\ HasData(closure[s])

C13_DestroyedOnlyForOwnSlot ==
    [][\A s \in Slots : \A i \in Live(s) :
          \/ phase' # "mounted"
          \/ closure'[s] # closure[s]
          \/ Len(charts'[s]) > Len(charts[s])
          \/ charts'[s][i].live]_vars

DestroyCalls(s) == {charts[s][i].destroys : i \in 1..Len(charts[s])}

\* C14: over the view lifetime no chart instance is destroyed twice, and
\* when the view has been torn down every instance that was constructed has
\* been destroyed exactly once and every observer that was registered has
\* been disconnected.
C14_DestroyedExactlyOnce ==
    \A s \in Slots :
        /\ DestroyCalls(s) \subseteq {0, 1}
        /\ phase = "torn" =>
              /\ DestroyCalls(s) \subseteq {1}
              /\ \A k \in 1..Len(observers) : observers[k][s] = "disconnected"

\* the GETs issued for category c since the view was mounted
Issued(c) == req[c].pending + req[c].failed + req[c].done

\* C15: each of the four data entities is absent until the view is mounted,
\* exactly one GET is issued per category in a view lifetime, and the state
\* of a category is set at most once: the entity it holds is the first one
\* decoded for it.
C15_FetchedOnce ==
    \A c \in Cats :
        /\ phase = "init" => ~HasData(data[c])
        /\ phase # "init" => Issued(c) = 1
        /\ data[c].id <= 1

Themes == {"light", "dark"}

\* C16: once the view has started, the theme it holds and the value
\* persisted in local storage are each light or dark, whatever string the
\* storage held before the startup and whatever startups and toggles
\* followed; with nothing stored the startup yields light.
C16_ThemeIsLightOrDark ==
    /\ InitialTheme(NoValue) = "light"
    /\ phase # "init" => theme \in Themes /\ storage \in Themes

\* C17: whenever the effects of the last render have run, a live chart
\* instance of a slot was constructed from the entity the slot's state
\* holds: a construction that was suspended at the import of the chart
\* library under an earlier entity never completes after the slot's entity
\* has been replaced.
C17_LiveChartFromCurrentData ==
    \A s \in Slots : \A i \in Live(s) :
        (phase = "mounted" /\ ~dirty) => charts[s][i].src = data[s]

====
